---- MODULE Spec2Model ----
(***************************************************************************)
(* Container lifecycle hooks of pkg/katautils/hook.go: the three entry     *)
(* points PreStartHooks / PostStartHooks / PostStopHooks, the fail-fast    *)
(* loop runHooks and the single-hook primitive runHook with its optional   *)
(* timeout (background cmd.Wait goroutine raced against time.After).       *)
(*                                                                         *)
(* The caller goroutine is a sequential program counter (pc); every hook   *)
(* process, every background wait goroutine and the deadline timer are     *)
(* separate actors whose steps interleave freely with the caller's.        *)
(***************************************************************************)
EXTENDS Integers, Sequences, FiniteSets, TLC

\* Largest number of hooks in one container specification (all three lists).
MaxHooks == 3

\* A Go nil pointer is the empty sequence, a non-nil pointer a one-element one.
NilPtr == <<>>

Ptr(v) == <<v>>

\* hook.Timeout: nil, or a pointer to a number of seconds.
Timeouts == {NilPtr, Ptr(1)}

\* specs.Hook, reduced to the field runHook branches on.
HookSpecs == [Timeout : Timeouts]

RECURSIVE SeqsUpTo(_, _)
SeqsUpTo(S, n) ==
    IF n = 0 THEN {<<>>}
    ELSE LET shorter == SeqsUpTo(S, n - 1)
         IN  shorter \cup {Append(s, x) : s \in shorter, x \in S}

HookLists == SeqsUpTo(HookSpecs, MaxHooks)

\* specs.Hooks: the three ordered lists of the hooks section.
HooksSections ==
    {h \in [Prestart : HookLists, Poststart : HookLists, Poststop : HookLists] :
        Len(h.Prestart) + Len(h.Poststart) + Len(h.Poststop) <= MaxHooks}

\* oci.CompatOCISpec: spec.Hooks is nil or points to a hooks section.
CompatOCISpecs == [Hooks : {NilPtr} \cup {Ptr(h) : h \in HooksSections}]

EntryPoints == {"PreStartHooks", "PostStartHooks", "PostStopHooks"}

\* Text a hook process can have emitted on <<stdout, stderr>> when it ends.
Outputs == {<<"", "">>, <<"out", "err">>}

\* How a hook process ends on its own: exit status 0, a non-zero exit
\* status, or an end whose cmd.Wait fails for another reason.
ExitKinds == {"exit0", "exit1", "waitfail"}

----------------------------------------------------------------------------
\* Error values.  nil is NilErr; every other error is its message, split
\* into the cause and (for the fmt.Errorf of lines 67 and 79) the two
\* captured texts.

NilErr == [cause |-> "nil", withOutput |-> FALSE, stdout |-> "", stderr |-> ""]

PlainErr(c) == [cause |-> c, withOutput |-> FALSE, stdout |-> "", stderr |-> ""]

\* cmd.Start() failed (line 61).
StartErr == PlainErr("start failed")

\* syscall.Kill failed (line 82).
KillErr == PlainErr("no such process")

\* fmt.Errorf("Hook timeout") (line 86).
HookTimeout == PlainErr("Hook timeout")

ExecErrorNoStdout(cause, so, se) ==
    [cause |-> cause, withOutput |-> TRUE, stdout |-> "", stderr |-> se]

ExecErrorNoStderr(cause, so, se) ==
    [cause |-> cause, withOutput |-> TRUE, stdout |-> so, stderr |-> ""]

\* fmt.Errorf("%s: stdout: %s, stderr: %s", err, stdout.String(), stderr.String())
ExecError(cause, so, se) ==
    [cause |-> cause, withOutput |-> TRUE, stdout |-> so, stderr |-> se]

\* The error cmd.Wait() returns for a process that ended with `status`.
WaitCause(status) ==
    CASE status = "exit0"    -> "nil"
      [] status = "exit1"    -> "exit status 1"
      [] status = "waitfail" -> "wait failed"
      [] status = "killed"   -> "signal: killed"
      [] OTHER               -> "wait failed"

----------------------------------------------------------------------------
VARIABLES
    entry,      \* the lifecycle entry point that was called
    spec,       \* its spec argument (oci.CompatOCISpec)
    hooks,      \* runHooks' hooks argument
    hookType,   \* runHooks' hookType argument
    pc,         \* where the caller goroutine is
    idx,        \* position of the range loop of runHooks (1-based)
    result,     \* the error the entry point returned (NilErr: success)
    proc,       \* proc[i]: the OS process of hook i
    waiter,     \* waiter[i]: the goroutine of lines 71-74 of hook i
    done,       \* done[i]: the channel of line 70 of hook i
    timer,      \* the time.After timer of the latest invocation
    stdout,     \* the stdout buffer of the latest invocation (line 51)
    stderr,     \* the stderr buffer of the latest invocation (line 51)
    early,      \* its process ended by itself before the deadline elapsed
    cid,        \* the cid argument of the entry point
    bundlePath, \* the bundlePath argument of the entry point
    tid,        \* what syscall.Gettid() returned to the latest invocation
    stdin,      \* the document on the stdin of the latest invocation's hook
    trace       \* what the caller goroutine did, in order

vars == <<entry, spec, hooks, hookType, pc, idx, result, proc, waiter, done,
          timer, stdout, stderr, early, cid, bundlePath, tid, stdin, trace>>

\* Container ids, bundle paths and thread ids of the caller.
Cids == {"c1", "c2"}

BundlePaths == {"/b1", "/b2"}

Tids == {4001, 4002}

\* syscall.Gettid() was not called yet.
NoTid == 0

\* No document: nothing was serialised yet.
NoDocument == [none |-> TRUE]

HookStateSwapped(t, bundle, id) == [Pid |-> t, Bundle |-> id, ID |-> bundle]

\* Lines 40-44: specs.State{Pid: syscall.Gettid(), Bundle: bundlePath, ID: cid}
HookState(t, bundle, id) == [Pid |-> t, Bundle |-> bundle, ID |-> id]

\* json.Marshal(state): one JSON object, one member per field, under the
\* member names of the state document.
Marshal(st) == [pid |-> st.Pid, bundlePath |-> st.Bundle, id |-> st.ID]

\* The hook's side: the object parsed back into the three values.
Unmarshal(doc) == [Pid |-> doc.pid, Bundle |-> doc.bundlePath, ID |-> doc.id]

ChanCapUnbuffered == 1 - 1

\* make(chan error, 1)
ChanCap == 1

NoProc == [st |-> "unstarted", status |-> "none"]

NoWaiter == [pc |-> "none", val |-> "nil"]

NoChan == [made |-> FALSE, buf |-> <<>>, closed |-> FALSE]

Ev(e, i, err, info) == [ev |-> e, hook |-> i, err |-> err, info |-> info]

\* The arguments of one call of one entry point; nothing has run yet.
Init ==
    /\ entry \in EntryPoints
    /\ spec \in CompatOCISpecs
    /\ hooks = <<>>
    /\ hookType = ""
    /\ pc = "entry"
    /\ idx = 0
    /\ result = NilErr
    /\ proc = <<>>
    /\ waiter = <<>>
    /\ done = <<>>
    /\ timer = "off"
    /\ stdout = ""
    /\ stderr = ""
    /\ early = FALSE
    /\ cid \in Cids
    /\ bundlePath \in BundlePaths
    /\ tid = NoTid
    /\ stdin = NoDocument
    /\ trace = <<>>

----------------------------------------------------------------------------
\* runHooks (lines 93-111)

StopsOnErrorNever(err) == FALSE

\* line 100: if err := runHook(...); err != nil
StopsOnError(err) == err # NilErr

NextIndexSkips(i) == i + 2

NextIndexRepeats(i) == i

\* line 99: the range loop moves to the next element
NextIndex(i) == i + 1

LogRecordNoType(type, err) == Ev("log", 0, err, "")

\* Lines 101-104: the log record of a failed hook.
LogRecord(type, err) == Ev("log", 0, err, type)

ReturnedErrWrapped(err) == PlainErr("hook failed")

\* line 106: return err
ReturnedErr(err) == err

\* The caller goroutine after runHook returned err for hook i: log and
\* return the error, move on to the next hook, or return nil after the last.
AfterRunHook(i, err, tr) ==
    LET returned == Append(tr, Ev("return", i, err, ""))
    IN  IF StopsOnError(err)
        THEN /\ pc' = "done"
             /\ result' = ReturnedErr(err)
             /\ idx' = idx
             /\ trace' = returned \o <<LogRecord(hookType, err),
                                       Ev("exit", 0, ReturnedErr(err), "")>>
        ELSE IF NextIndex(i) <= Len(hooks)
        THEN /\ pc' = "loop"
             /\ result' = result
             /\ idx' = NextIndex(i)
             /\ trace' = returned
        ELSE /\ pc' = "done"
             /\ result' = NilErr
             /\ idx' = idx
             /\ trace' = Append(returned, Ev("exit", 0, NilErr, ""))

\* Entering runHooks with a hook list and a phase label.
RunHooksCall(list, label) ==
    /\ hooks' = list
    /\ hookType' = label
    /\ proc' = [i \in 1..Len(list) |-> NoProc]
    /\ waiter' = [i \in 1..Len(list) |-> NoWaiter]
    /\ done' = [i \in 1..Len(list) |-> NoChan]
    /\ IF Len(list) = 0
       THEN /\ pc' = "done"
            /\ idx' = idx
            /\ trace' = Append(trace, Ev("exit", 0, NilErr, ""))
       ELSE /\ pc' = "loop"
            /\ idx' = 1
            /\ trace' = trace
    /\ result' = NilErr
    /\ UNCHANGED <<entry, spec, timer, stdout, stderr, early,
                   cid, bundlePath, tid, stdin>>

----------------------------------------------------------------------------
\* The entry points (lines 113-141)

\* lines 116, 126, 136: spec.Hooks == nil
HooksAbsent(sp) == sp.Hooks = NilPtr

\* "If no hook available, nothing needs to be done."
ReturnNil ==
    /\ pc' = "done"
    /\ result' = NilErr
    /\ trace' = Append(trace, Ev("exit", 0, NilErr, ""))
    /\ UNCHANGED <<entry, spec, hooks, hookType, idx, proc, waiter, done, timer,
                   stdout, stderr, early, cid, bundlePath, tid, stdin>>

PrestartOfWrongList(sp) == sp.Hooks[1].Poststart

\* line 120: spec.Hooks.Prestart
PrestartOf(sp) == sp.Hooks[1].Prestart

\* line 130: spec.Hooks.Poststart
PoststartOf(sp) == sp.Hooks[1].Poststart

\* line 140: spec.Hooks.Poststop
PoststopOf(sp) == sp.Hooks[1].Poststop

PreStartHooks ==
    /\ pc = "entry"
    /\ entry = "PreStartHooks"
    /\ IF HooksAbsent(spec)
       THEN ReturnNil
       ELSE RunHooksCall(PrestartOf(spec), "pre-start")

PostStartHooks ==
    /\ pc = "entry"
    /\ entry = "PostStartHooks"
    /\ IF HooksAbsent(spec)
       THEN ReturnNil
       ELSE RunHooksCall(PoststartOf(spec), "post-start")

PostStopHooks ==
    /\ pc = "entry"
    /\ entry = "PostStopHooks"
    /\ IF HooksAbsent(spec)
       THEN ReturnNil
       ELSE RunHooksCall(PoststopOf(spec), "post-stop")

----------------------------------------------------------------------------
\* runHook (lines 30-91)

TimeoutConfiguredAlways(hook) == TRUE

\* line 65: hook.Timeout == nil selects the blocking wait, else the race
TimeoutConfigured(hook) == hook.Timeout # NilPtr

WaitResultSwallows(cause, so, se) == NilErr

\* Lines 66-68 and 77-80: the error runHook returns for what cmd.Wait()
\* returned, with both buffers read after the wait.
WaitResult(cause, so, se) ==
    IF cause # "nil" THEN ExecError(cause, so, se) ELSE NilErr

\* What cmd.Start() returns.
StartOutcome(started) == IF started THEN NilErr ELSE StartErr

StartFailedIgnored(started) == FALSE

\* line 61: if err := cmd.Start(); err != nil
StartFailed(started) == ~started

\* Lines 40-63: build and serialise the state, declare the two empty
\* buffers, then cmd.Start().  A failed
\* start returns its error at once; a started hook either blocks in
\* cmd.Wait() (line 66) or makes the channel, starts the wait goroutine and
\* enters the select, which arms the deadline timer (lines 70-81).
RunHookStart ==
    /\ pc = "loop"
    /\ \E started \in BOOLEAN :
         LET invoked == Append(trace, Ev("invoke", idx, NilErr, ""))
         IN  IF StartFailed(started)
             THEN /\ AfterRunHook(idx, StartOutcome(started),
                                  Append(invoked, Ev("start", idx, StartOutcome(started), "")))
                  /\ UNCHANGED <<proc, waiter, done, timer>>
             ELSE /\ proc' = [proc EXCEPT ![idx].st =
                                   IF started THEN "running" ELSE @]
                  /\ IF TimeoutConfigured(hooks[idx])
                     THEN /\ done' = [done EXCEPT ![idx].made = TRUE]
                          /\ waiter' = [waiter EXCEPT ![idx].pc = "waiting"]
                          /\ timer' = "armed"
                          /\ pc' = "select"
                          /\ trace' = invoked \o <<Ev("start", idx, StartOutcome(started), ""),
                                                   Ev("go", idx, NilErr, ""),
                                                   Ev("timer", idx, NilErr, "")>>
                     ELSE /\ pc' = "wait"
                          /\ trace' = invoked \o <<Ev("start", idx, StartOutcome(started), ""),
                                                   Ev("wait", idx, NilErr, "")>>
                          /\ UNCHANGED <<done, waiter, timer>>
                  /\ UNCHANGED <<idx, result>>
    /\ stdout' = ""
    /\ stderr' = ""
    /\ early' = FALSE
    /\ \E t \in Tids :
         /\ tid' = t
         /\ stdin' = Marshal(HookState(t, bundlePath, cid))
    /\ UNCHANGED <<entry, spec, hooks, hookType, cid, bundlePath>>

\* The hook process ends on its own, having written its output to the
\* buffers of its invocation.  `early` records that it ended while the
\* deadline had not yet elapsed.
ProcExit(i) ==
    /\ proc[i].st = "running"
    /\ i = idx
    /\ \E k \in ExitKinds, o \in Outputs :
         /\ proc' = [proc EXCEPT ![i] = [st |-> "zombie", status |-> k]]
         /\ stdout' = o[1]
         /\ stderr' = o[2]
    /\ early' = (timer # "fired")
    /\ UNCHANGED <<entry, spec, hooks, hookType, pc, idx, result, waiter, done,
                   timer, cid, bundlePath, tid, stdin, trace>>

EndedOrRunning(p) == p.st \in {"zombie", "running"}

\* Lines 66 and 72: cmd.Wait() returns only for a process that has ended.
Ended(p) == p.st = "zombie"

\* cmd.Wait() reaps the ended process.
Reaped(p) == [p EXCEPT !.st = IF @ = "zombie" THEN "reaped" ELSE @]

\* Lines 67 and 79: stdout.String() and stderr.String() are evaluated only
\* when the wait's error is not nil; the event records the state the
\* process is in when they are.
WithRead(tr, i, cause, st) ==
    IF cause # "nil" THEN Append(tr, Ev("read", i, NilErr, st)) ELSE tr

\* Lines 66-68: the blocking cmd.Wait() of an untimed hook returns once the
\* process has ended, and reaps it.
WaitReturn ==
    /\ pc = "wait"
    /\ Ended(proc[idx])
    /\ proc' = [proc EXCEPT ![idx] = Reaped(@)]
    /\ AfterRunHook(idx, WaitResult(WaitCause(proc[idx].status), stdout, stderr),
                    WithRead(trace, idx, WaitCause(proc[idx].status),
                             Reaped(proc[idx]).st))
    /\ UNCHANGED <<entry, spec, hooks, hookType, waiter, done, timer, stdout,
                   stderr, early, cid, bundlePath, tid, stdin>>

\* Line 72, first half: cmd.Wait() returns in the background goroutine.
WaiterWait(i) ==
    /\ waiter[i].pc = "waiting"
    /\ Ended(proc[i])
    /\ proc' = [proc EXCEPT ![i] = Reaped(@)]
    /\ waiter' = [waiter EXCEPT ![i] = [pc |-> "send",
                                        val |-> WaitCause(proc[i].status)]]
    /\ UNCHANGED <<entry, spec, hooks, hookType, pc, idx, result, done, timer,
                   stdout, stderr, early, cid, bundlePath, tid,
                   stdin, trace>>

\* Line 72, second half: the send on done, which blocks while the buffer
\* is full.
WaiterSend(i) ==
    /\ waiter[i].pc = "send"
    /\ Len(done[i].buf) < ChanCap
    /\ done' = [done EXCEPT ![i].buf = Append(@, waiter[i].val)]
    /\ waiter' = [waiter EXCEPT ![i].pc = "close"]
    /\ UNCHANGED <<entry, spec, hooks, hookType, pc, idx, result, proc, timer,
                   stdout, stderr, early, cid, bundlePath, tid,
                   stdin, trace>>

\* Line 73: close(done); the goroutine ends.
WaiterClose(i) ==
    /\ waiter[i].pc = "close"
    /\ done' = [done EXCEPT ![i].closed = TRUE]
    /\ waiter' = [waiter EXCEPT ![i].pc = "finished"]
    /\ UNCHANGED <<entry, spec, hooks, hookType, pc, idx, result, proc, timer,
                   stdout, stderr, early, cid, bundlePath, tid,
                   stdin, trace>>

\* Line 81: the duration of time.After elapses.
TimerFire ==
    /\ timer = "armed"
    /\ timer' = "fired"
    /\ UNCHANGED <<entry, spec, hooks, hookType, pc, idx, result, proc, waiter,
                   done, stdout, stderr, early, cid, bundlePath, tid,
                   stdin, trace>>

\* A receive from done can proceed: a value is buffered, or it is closed.
DoneReady(ch) == Len(ch.buf) > 0 \/ ch.closed

\* Lines 77-80: the select receives the wait's result.
SelectDone ==
    /\ pc = "select"
    /\ DoneReady(done[idx])
    /\ LET val == IF Len(done[idx].buf) > 0 THEN Head(done[idx].buf) ELSE "nil"
       IN  AfterRunHook(idx, WaitResult(val, stdout, stderr),
                        WithRead(Append(trace, Ev("recv", idx, NilErr, val)),
                                 idx, val, proc[idx].st))
    /\ done' = [done EXCEPT ![idx].buf = IF Len(@) > 0 THEN Tail(@) ELSE @]
    /\ timer' = "off"
    /\ UNCHANGED <<entry, spec, hooks, hookType, proc, waiter, stdout, stderr,
                   early, cid, bundlePath, tid, stdin>>

DeadlineReadyNever(t) == FALSE

\* The channel of time.After has its value.
DeadlineReady(t) == t = "fired"

\* What syscall.Kill(pid, SIGKILL) can do to the pid of a process in state
\* st: <<target, succeeded>>.  A running child is killed; a child that
\* has ended and was not reaped yet still owns its pid, and the signal is
\* accepted; a reaped child's pid is free, so the call fails with ESRCH
\* or, if the pid was given to another process meanwhile, hits that one.
KillOutcomes(st) ==
    CASE st = "running" -> {<<"live", TRUE>>}
      [] st = "zombie"  -> {<<"zombie", TRUE>>}
      [] st = "reaped"  -> {<<"none", FALSE>>, <<"foreign", TRUE>>}

KillErrorIgnored(succeeded) == HookTimeout

\* Lines 82-86: the kill's error, or "Hook timeout".
DeadlineResult(succeeded) == IF succeeded THEN HookTimeout ELSE KillErr

\* Lines 81-87: the select receives from the timer, kills the process
\* and returns.
SelectDeadline ==
    /\ pc = "select"
    /\ DeadlineReady(timer)
    /\ \E k \in KillOutcomes(proc[idx].st), o \in Outputs :
         /\ IF k[1] = "live"
            THEN /\ proc' = [proc EXCEPT ![idx] = [st |-> "zombie",
                                                   status |-> "killed"]]
                 /\ stdout' = o[1]
                 /\ stderr' = o[2]
            ELSE /\ o = <<"", "">>
                 /\ UNCHANGED <<proc, stdout, stderr>>
         /\ AfterRunHook(idx, DeadlineResult(k[2]),
                         trace \o <<Ev("deadline", idx, NilErr, timer),
                                    Ev("kill", idx, IF k[2] THEN NilErr ELSE KillErr,
                                       k[1])>>)
    /\ timer' = "off"
    /\ UNCHANGED <<entry, spec, hooks, hookType, waiter, done, early,
                   cid, bundlePath, tid, stdin>>

----------------------------------------------------------------------------
Next ==
    \/ PreStartHooks
    \/ PostStartHooks
    \/ PostStopHooks
    \/ RunHookStart
    \/ WaitReturn
    \/ SelectDone
    \/ SelectDeadline
    \/ TimerFire
    \/ \E i \in 1..Len(hooks) : ProcExit(i)
    \/ \E i \in 1..Len(hooks) : WaiterWait(i)
    \/ \E i \in 1..Len(hooks) : WaiterSend(i)
    \/ \E i \in 1..Len(hooks) : WaiterClose(i)

Spec == Init /\ [][Next]_vars

\* The steps of the caller goroutine.
Caller ==
    \/ PreStartHooks
    \/ PostStartHooks
    \/ PostStopHooks
    \/ RunHookStart
    \/ WaitReturn
    \/ SelectDone
    \/ SelectDeadline

\* The steps of the wait goroutine of hook i.
Waiter(i) ==
    /\ i \in 1..Len(hooks)
    /\ (WaiterWait(i) \/ WaiterSend(i) \/ WaiterClose(i))

\* The Go scheduler runs every goroutine that can take a step, and an
\* armed timer fires; a hook process need never end by itself.
FairSpec ==
    /\ Spec
    /\ WF_vars(Caller)
    /\ WF_vars(TimerFire)
    /\ \A i \in 1..MaxHooks : WF_vars(Waiter(i))

----------------------------------------------------------------------------
\* Reading the caller's trace

Positions == 1..Len(trace)

\* runHook was called for hook i.
Invoked(i) == \E n \in Positions : trace[n].ev = "invoke" /\ trace[n].hook = i

\* runHook has returned for hook i.
Returned(i) == \E n \in Positions : trace[n].ev = "return" /\ trace[n].hook = i

\* runHook has returned err for hook i.
ReturnedWith(i, err) ==
    \E n \in Positions :
        trace[n].ev = "return" /\ trace[n].hook = i /\ trace[n].err = err

\* runHook has returned a failure for hook i.
Failed(i) ==
    \E n \in Positions :
        trace[n].ev = "return" /\ trace[n].hook = i /\ trace[n].err # NilErr

\* cmd.Start() succeeded for hook i.
IsLaunch(e) == e.ev = "start" /\ e.err = NilErr

Launches == SelectSeq(trace, IsLaunch)

\* The kills sent on behalf of hook i.
KillsOf(i) == {n \in Positions : trace[n].ev = "kill" /\ trace[n].hook = i}

\* The list the specification holds for the phase of the entry point.
PhaseList ==
    IF spec.Hooks = NilPtr THEN <<>>
    ELSE CASE entry = "PreStartHooks"  -> spec.Hooks[1].Prestart
           [] entry = "PostStartHooks" -> spec.Hooks[1].Poststart
           [] entry = "PostStopHooks"  -> spec.Hooks[1].Poststop

----------------------------------------------------------------------------
\* C1 (fail-fast): once runHook has returned a failure for the hook at
\* position k, no hook at a position greater than k is invoked, started or
\* has a process, in any state of the run.
C1_FailFast ==
    \A k \in 1..Len(hooks) :
        Failed(k) =>
            /\ \A n \in Positions :
                   trace[n].ev \in {"invoke", "start"} => trace[n].hook <= k
            /\ \A j \in 1..Len(hooks) : j > k => proc[j].st = "unstarted"

\* Three hooks, the second failed, the run is over and the third never ran.
C1_Witness ==
    /\ pc = "done"
    /\ Len(hooks) = 3
    /\ ReturnedWith(1, NilErr)
    /\ Failed(2)
    /\ proc[3].st = "unstarted"

\* C2 (sequential ordering): the caller's trace never holds two invocations
\* in progress: every call of runHook for a hook is preceded by the return
\* of the call for each hook invoked before it, and is for the position
\* right after the last one that returned.
C2_Sequential ==
    \A m \in Positions :
        trace[m].ev = "invoke" =>
            /\ \A n \in 1..(m - 1) :
                   trace[n].ev = "invoke" =>
                       \E r \in (n + 1)..(m - 1) :
                           trace[r].ev = "return" /\ trace[r].hook = trace[n].hook
            /\ \A j \in 1..(trace[m].hook - 1) :
                   \E r \in 1..(m - 1) : trace[r].ev = "return" /\ trace[r].hook = j

\* The second hook is in progress after the first one has returned.
C2_Witness ==
    /\ Len(hooks) >= 2
    /\ Returned(1)
    /\ Invoked(2)
    /\ ~Returned(2)
    /\ proc[2].st = "running"

\* C3 (prefix, in order, exactly once): the hooks whose processes were
\* launched are, in launch order, the hooks 1, 2, ..., m of the list.
C3_LaunchedPrefix ==
    /\ Len(Launches) <= Len(hooks)
    /\ \A n \in 1..Len(Launches) : Launches[n].hook = n

\* Two of three hooks were launched and the run is over.
C3_Witness ==
    /\ pc = "done"
    /\ Len(hooks) = 3
    /\ Len(Launches) = 2

\* C4 (nothing to run): when the specification has no hooks section, or
\* the list of the entry point's phase is empty, the caller does nothing
\* but return success: no invocation, launch, wait, goroutine, timer, kill
\* or log record, and no process.
C4_NothingToRun ==
    PhaseList = <<>> =>
        /\ pc \in {"entry", "done"}
        /\ \A n \in Positions : trace[n] = Ev("exit", 0, NilErr, "")
        /\ pc = "done" => result = NilErr /\ Len(trace) = 1
        /\ \A i \in DOMAIN proc : proc[i].st = "unstarted"
        /\ timer = "off"

\* PreStartHooks has returned for a hooks section that has hooks, but none
\* for pre-start.
C4_Witness ==
    /\ pc = "done"
    /\ entry = "PreStartHooks"
    /\ spec.Hooks # NilPtr
    /\ PhaseList = <<>>
    /\ Len(spec.Hooks[1].Poststart) > 0
    /\ result = NilErr

\* The hook's process was launched.
Launched(i) == proc[i].st # "unstarted"

\* Hook i is the latest hook invoked, and its invocation has returned: the
\* buffers and `early` are those of hook i.
LatestReturned(i) ==
    /\ Returned(i)
    /\ \A n \in Positions : trace[n].ev = "invoke" => trace[n].hook <= i

\* What the invocation of the latest hook owes its caller for the way its
\* process ended by itself: nil for exit status 0, else the wait's error
\* with the two texts the process wrote.
OwnResult(i) ==
    IF proc[i].status = "exit0" THEN NilErr
    ELSE [cause |-> IF proc[i].status = "exit1" THEN "exit status 1"
                    ELSE "wait failed",
          withOutput |-> TRUE, stdout |-> stdout, stderr |-> stderr]

C6_KillOnlyOnDeadline ==
    /\ \A i \in 1..Len(hooks) :
           hooks[i].Timeout = NilPtr =>
               /\ KillsOf(i) = {}
               /\ Returned(i) /\ proc[i].status = "exit0" => ReturnedWith(i, NilErr)
    /\ ( /\ pc = "done"
         /\ \A i \in 1..Len(hooks) :
                hooks[i].Timeout = NilPtr /\ proc[i].status = "exit0" )
       => result = NilErr
    /\ \A n \in Positions :
           trace[n].ev = "kill" =>
               /\ hooks[trace[n].hook].Timeout # NilPtr
               /\ n > 1
               /\ trace[n - 1] = Ev("deadline", trace[n].hook, NilErr, "fired")
    /\ \A i \in 1..Len(hooks) : Cardinality(KillsOf(i)) <= 1

\* An untimed hook exited 0 and returned success without a kill, and the
\* timed hook after it was killed on its deadline.
C6_Witness ==
    /\ pc = "done"
    /\ Len(hooks) = 2
    /\ hooks[1].Timeout = NilPtr
    /\ proc[1].status = "exit0"
    /\ ReturnedWith(1, NilErr)
    /\ KillsOf(1) = {}
    /\ KillsOf(2) # {}
    /\ proc[2].status = "killed"

\* C7 (untimed failure): the invocation of an untimed hook does not return
\* while its process runs; when the process exits non-zero or the wait
\* fails, the invocation returns, and the sequence reports, the wait's
\* error with the stdout text and the stderr text the process wrote.
C7_UntimedFailureCarriesOutput ==
    \A i \in 1..Len(hooks) :
        (hooks[i].Timeout = NilPtr /\ Launched(i) /\ Returned(i)) =>
            /\ proc[i].st = "reaped"
            /\ proc[i].status \in {"exit1", "waitfail"} =>
                   /\ ReturnedWith(i, OwnResult(i))
                   /\ pc = "done"
                   /\ result = OwnResult(i)
                   /\ result.withOutput
                   /\ result.stdout = stdout
                   /\ result.stderr = stderr

\* An untimed hook wrote to both streams and exited non-zero; the entry
\* point returned the error carrying both texts.
C7_Witness ==
    /\ pc = "done"
    /\ Len(hooks) >= 1
    /\ hooks[1].Timeout = NilPtr
    /\ proc[1].status = "exit1"
    /\ stdout = "out"
    /\ stderr = "err"
    /\ result.withOutput
    /\ result.stdout = "out"
    /\ result.stderr = "err"

\* C8 (exit before the deadline): a timed hook whose process ended by
\* itself before the deadline elapsed returns the process's own result and
\* is sent no kill, whatever the order of the wait goroutine, the timer
\* and the select.
C8_ExitBeforeDeadlineWins ==
    \A i \in 1..Len(hooks) :
        ( /\ hooks[i].Timeout # NilPtr
          /\ Launched(i)
          /\ LatestReturned(i)
          /\ early )
        => /\ ReturnedWith(i, OwnResult(i))
           /\ KillsOf(i) = {}

\* C9 (deadline case): whenever the select takes the deadline case for a
\* hook, one kill is sent at once, a live process is dead as soon as the
\* kill is sent, and the invocation returns "Hook timeout", which carries
\* no output and so is no execution failure, or, if the kill failed, the
\* kill's error; the sequence returns that error.
C9_DeadlineKillsAndReports ==
    \A n \in Positions :
        trace[n].ev = "deadline" =>
            LET i == trace[n].hook IN
            /\ Len(trace) >= n + 2
            /\ trace[n + 1].ev = "kill" /\ trace[n + 1].hook = i
            /\ trace[n + 2].ev = "return" /\ trace[n + 2].hook = i
            /\ trace[n + 2].err = IF trace[n + 1].err = NilErr
                                  THEN PlainErr("Hook timeout")
                                  ELSE trace[n + 1].err
            /\ trace[n + 2].err # NilErr
            /\ ~trace[n + 2].err.withOutput
            /\ trace[n + 1].info = "live" =>
                   proc[i].status = "killed" /\ proc[i].st # "running"
            /\ trace[n + 1].err = NilErr <=> trace[n + 1].info # "none"
            /\ pc = "done"
            /\ result = trace[n + 2].err

\* The deadline case was taken, the kill failed and its error was returned.
C9_Witness ==
    /\ pc = "done"
    /\ \E n \in Positions :
           /\ trace[n].ev = "kill"
           /\ trace[n].err = PlainErr("no such process")
    /\ result = PlainErr("no such process")

\* C10 (timeout means killed): whenever an invocation has returned "Hook
\* timeout", a kill was accepted for the hook's own process and that
\* process is not running.
C10_TimeoutMeansKilled ==
    \A i \in 1..Len(hooks) :
        ReturnedWith(i, HookTimeout) =>
            /\ \E n \in KillsOf(i) :
                   trace[n].err = NilErr /\ trace[n].info \in {"live", "zombie"}
            /\ proc[i].st # "running"

\* The positions of the hooks whose invocation returned a failure.
FailedHooks == {k \in 1..Len(hooks) : Failed(k)}

\* C11 (first failure verbatim): when the entry point has returned, it
\* returned nil if no invocation failed, and otherwise the very error value
\* the one failing invocation returned: the same cause and the same
\* captured texts, and no hook after it has returned anything.
C11_FirstFailureVerbatim ==
    pc = "done" =>
        /\ trace[Len(trace)] = Ev("exit", 0, result, "")
        /\ FailedHooks = {} => result = NilErr
        /\ \A k \in FailedHooks :
               /\ ReturnedWith(k, result)
               /\ result # NilErr
               /\ \A j \in 1..Len(hooks) : j > k => ~Returned(j)
               /\ \A j \in 1..Len(hooks) : j < k => ReturnedWith(j, NilErr)

\* The second of three hooks failed with captured output, and the entry
\* point returned that error.
C11_Witness ==
    /\ pc = "done"
    /\ Len(hooks) = 3
    /\ FailedHooks = {2}
    /\ result.withOutput
    /\ result.stdout = "out"
    /\ ReturnedWith(2, result)

\* The phase label of the entry point that was called.
PhaseLabel ==
    CASE entry = "PreStartHooks"  -> "pre-start"
      [] entry = "PostStartHooks" -> "post-start"
      [] entry = "PostStopHooks"  -> "post-stop"

\* C12 (log before return): when the entry point has returned a failure,
\* the caller's trace ends with the return of the failed invocation, then
\* one log record carrying the label of the entry point's phase and that
\* error, then the return of the entry point; a successful run logs nothing.
C12_LoggedBeforeReturn ==
    /\ \A n \in Positions :
           trace[n].ev = "log" =>
               /\ trace[n].info = PhaseLabel
               /\ n > 1 /\ trace[n - 1].ev = "return" /\ trace[n - 1].err = trace[n].err
               /\ trace[n].err # NilErr
    /\ pc = "done" /\ result # NilErr =>
           /\ Len(trace) >= 3
           /\ trace[Len(trace) - 1].ev = "log"
           /\ trace[Len(trace) - 1].err = result
           /\ trace[Len(trace) - 1].info = PhaseLabel
           /\ Cardinality({n \in Positions : trace[n].ev = "log"}) = 1
    /\ pc = "done" /\ result = NilErr =>
           \A n \in Positions : trace[n].ev # "log"
    /\ pc # "entry" /\ spec.Hooks # NilPtr => hookType = PhaseLabel

\* PostStopHooks failed on a timeout and logged it under "post-stop".
C12_Witness ==
    /\ pc = "done"
    /\ entry = "PostStopHooks"
    /\ result = PlainErr("Hook timeout")
    /\ trace[Len(trace) - 1] = Ev("log", 0, result, "post-stop")

\* The events of the caller's trace that are about hook i.
EventsOf(i) == {trace[n].ev : n \in {m \in Positions : trace[m].hook = i}}

\* C13 (launch failure returns at once): when cmd.Start() fails for a
\* hook, timed or untimed, the next thing the caller does is return that
\* error from the invocation: it performs no wait, starts no goroutine,
\* makes no channel, arms no timer and sends no kill, and the hook has no
\* process.
C13_LaunchFailureReturnsAtOnce ==
    \A n \in Positions :
        (trace[n].ev = "start" /\ trace[n].err # NilErr) =>
            LET i == trace[n].hook IN
            /\ trace[n].err = PlainErr("start failed")
            /\ Len(trace) > n
            /\ trace[n + 1] = Ev("return", i, trace[n].err, "")
            /\ EventsOf(i) = {"invoke", "start", "return"}
            /\ proc[i].st = "unstarted"
            /\ waiter[i].pc = "none"
            /\ ~done[i].made
            /\ timer = "off"
            /\ pc = "done"
            /\ result = trace[n].err

\* The launch of a timed hook failed, after an untimed hook had passed.
C13_Witness ==
    /\ pc = "done"
    /\ Len(hooks) = 2
    /\ hooks[1].Timeout = NilPtr
    /\ hooks[2].Timeout # NilPtr
    /\ ReturnedWith(1, NilErr)
    /\ proc[2].st = "unstarted"
    /\ result = PlainErr("start failed")

\* C14 as stated (every failure carries the output): whenever the entry
\* point has returned a failure, of whatever kind, the error combines its
\* cause with the captured stdout and stderr texts.
C14_EveryFailureCarriesOutput ==
    pc = "done" /\ result # NilErr =>
        /\ result.withOutput
        /\ result.stdout = stdout
        /\ result.stderr = stderr

\* C14 as amended (only execution failures carry the output): whenever the
\* entry point has returned a failure, it is the one error the failed
\* invocation returned, and what the caller did last before that return
\* decides its shape: after reading the buffers (failed wait, timed or
\* not) the wait's error with both captured texts; after a failed start
\* the start's error alone; after the kill "Hook timeout" or the kill's
\* error alone.
C14_OnlyWaitFailuresCarryOutput ==
    pc = "done" /\ result # NilErr =>
        LET r == Len(trace) - 2
            prev == trace[r - 1]
        IN  /\ r > 1
            /\ trace[r].ev = "return" /\ trace[r].err = result
            /\ prev.ev \in {"start", "read", "kill"}
            /\ prev.ev = "read" =>
                   /\ result.withOutput
                   /\ result.cause \in {"exit status 1", "wait failed"}
                   /\ result.stdout = stdout
                   /\ result.stderr = stderr
            /\ prev.ev = "start" => result = PlainErr("start failed")
            /\ prev.ev = "kill" =>
                   result \in {PlainErr("Hook timeout"), PlainErr("no such process")}

\* A timed hook wrote to both streams and exited non-zero before its
\* deadline; the entry point returned the wait's error with both texts.
C14_Witness ==
    /\ pc = "done"
    /\ Len(hooks) >= 1
    /\ hooks[idx].Timeout # NilPtr
    /\ proc[idx].status = "exit1"
    /\ result.withOutput
    /\ result.stdout = "out"
    /\ result.stderr = "err"

\* C17 (buffers read after the wait): every evaluation of stdout.String()
\* and stderr.String() happens when the wait on the hook's process has
\* returned and reaped it, or after a kill was sent for the hook; never
\* while the process is running or its end has not been waited for.
C17_BuffersReadAfterWait ==
    \A n \in Positions :
        trace[n].ev = "read" =>
            \/ trace[n].info = "reaped"
            \/ \E k \in 1..(n - 1) :
                   trace[k].ev = "kill" /\ trace[k].hook = trace[n].hook

\* The buffers of a timed hook were read after its process had written to
\* them and its wait had failed.
C17_Witness ==
    /\ pc = "done"
    /\ Len(hooks) >= 1
    /\ hooks[idx].Timeout # NilPtr
    /\ proc[idx].status = "waitfail"
    /\ \E n \in Positions :
           trace[n] = Ev("read", idx, NilErr, "reaped")
    /\ stdout = "out"
    /\ result.stdout = "out"

\* C15 (wait goroutine scoped to its invocation): a wait goroutine exists
\* only for a timed hook that was invoked, at most one was started for it,
\* and once the hook's invocation has returned the goroutine has ended.
C15_WaiterScopedToInvocation ==
    \A i \in 1..Len(hooks) :
        /\ hooks[i].Timeout = NilPtr => waiter[i].pc = "none"
        /\ waiter[i].pc # "none" => Invoked(i)
        /\ Cardinality({n \in Positions :
                            trace[n].ev = "go" /\ trace[n].hook = i}) <= 1
        /\ Returned(i) => waiter[i].pc \in {"none", "finished"}

\* C18 (no kill after reaping): every kill is sent while the hook's
\* process still owns its pid: it is running, or it has ended and the
\* background cmd.Wait() has not reaped it yet.
C18_NoKillAfterReap ==
    \A n \in Positions :
        trace[n].ev = "kill" => trace[n].info \in {"live", "zombie"}

AllTimed == \A i \in 1..Len(PhaseList) : PhaseList[i].Timeout # NilPtr

\* C19 (timed invocations return): under fair scheduling and a timer that
\* fires, a caller in the select of a timed hook always leaves it, whether
\* or not the hook's process ever ends by itself, so a run whose hooks all
\* have a timeout ends; an untimed invocation has returned only if its
\* process has ended.
C19_TimedInvocationReturns ==
    /\ (pc = "select") ~> (pc # "select")
    /\ AllTimed => <>(pc = "done")
    /\ [](\A i \in 1..Len(hooks) :
              (hooks[i].Timeout = NilPtr /\ Launched(i) /\ Returned(i))
                  => proc[i].st # "running")

\* A timed hook's process never ended by itself, and the invocation has
\* returned.
C19_Witness ==
    /\ pc = "done"
    /\ Len(hooks) >= 1
    /\ hooks[idx].Timeout # NilPtr
    /\ proc[idx].status = "killed"
    /\ Returned(idx)

====
